---------------------------- MODULE Spec2Model ----------------------------
(***************************************************************************)
(* pyscaffold.structure: reification of a project structure (a dictionary  *)
(* of dictionaries) in the file system by create_structure, with the       *)
(* normalisation of leaves (structure_leaf), the resolution of contents    *)
(* (reify_content) and the file operations create, no_overwrite and        *)
(* skip_on_update.                                                         *)
(*                                                                         *)
(* Values.  A Python value is a record [ty, v]: ty is the Python type and  *)
(* v a sequence of text tokens (the text of a str, the pattern of a        *)
(* Template, the name of a function).  A path is the sequence of its       *)
(* components.  A dict of the structure is the sequence of its items in    *)
(* iteration order, an item being [name, node]; a node is                  *)
(* [isdict, istuple, content, file_op, items].  The dict create_structure  *)
(* returns is a function from the names it holds to                        *)
(* [isdict, content, items].                                               *)
(***************************************************************************)
EXTENDS Naturals, Sequences, FiniteSets, TLC

VARIABLES struct,   \* the structure handed to create_structure
          fs,       \* the file system: [dirs, files]
          fs0,      \* the file system when the last call of create_structure began
          opts,     \* the opts of the last call
          changed,  \* the dict the last call returned
          raised,   \* the exception the last call raised, "none" if it returned
          log       \* the calls the last call made to its collaborators, in order

vars == <<struct, fs, fs0, opts, changed, raised, log>>

-----------------------------------------------------------------------------
(* Bounds *)

\* nodes (files and directories) of a structure, the root not counted
MaxNodes == 3

\* the names a dict of the structure draws its keys from, in iteration order
Names == <<"a", "b">>

-----------------------------------------------------------------------------
(* Python values *)

None == [ty |-> "NoneType", v |-> <<>>]

Str(s) == [ty |-> "str", v |-> s]

Function(n) == [ty |-> "function", v |-> <<n>>]

Template(s) == [ty |-> "Template", v |-> s]

\* a subclass of string.Template that defines __call__
CallableTemplate(s) == [ty |-> "CallableTemplate", v |-> s]

\* a value that is no file content at all
Int42 == [ty |-> "int", v |-> <<"42">>]

OLD == Str(<<"OLD">>)

\* {}
EmptyDict == [n \in {} |-> None]

-----------------------------------------------------------------------------
(* opts *)

\* opts.get(k) for the flags update, force and pretend
Get(o, k) == k \in DOMAIN o /\ o[k]

\* the key a placeholder of a Template names
Placeholders == [ph \in {"${name}", "${missing}"} |->
                    IF ph = "${name}" THEN "name" ELSE "missing"]

-----------------------------------------------------------------------------
(* The file system and the collaborators of pyscaffold.file_system and       *)
(* pyscaffold.operations.  A run state st is [fs, log, err]: the file system, *)
(* the calls made so far and the exception in flight ("none" when none).      *)

\* the directories above a path
Parents(path) == {SubSeq(path, 1, k) : k \in 1..(Len(path) - 1)}

\* path.exists()
Exists(path, f) == path \in f.dirs \/ path \in DOMAIN f.files

Logged(st, ev) == [st EXCEPT !.log = Append(@, ev)]

Raise(st, exc) == [st EXCEPT !.err = exc]

\* create_directory(path, update, pretend): idempotent, and touches nothing
\* under pretend; the error of the file system, when a file is in the way,
\* is not caught
create_directory(path, update, pretend, st) ==
    LET st1 == Logged(st, [call |-> "create_directory", path |-> path,
                           update |-> update, pretend |-> pretend])
    IN  IF pretend THEN st1
        ELSE IF path \in DOMAIN st1.fs.files THEN Raise(st1, "FileExistsError")
        ELSE [st1 EXCEPT !.fs.dirs = @ \cup {path} \cup Parents(path)]

\* the write of create: the parents are made, the text replaces what was there;
\* a value that is no text raises TypeError
write_text(path, content, st) ==
    IF content.ty # "str"
    THEN Raise(st, "TypeError")
    ELSE [st EXCEPT !.fs.dirs = @ \cup Parents(path),
                    !.fs.files = (path :> content) @@ @]

\* operations.create: [ret, st]
create(path, content, o, st) ==
    IF content = None THEN [ret |-> FALSE, st |-> st]
    ELSE IF Get(o, "pretend") THEN [ret |-> TRUE, st |-> st]
    ELSE LET st1 == write_text(path, content, st)
         IN  [ret |-> st1.err = "none", st |-> st1]

\* operations.no_overwrite()
no_overwrite(path, content, o, st) ==
    IF Exists(path, st.fs) THEN [ret |-> FALSE, st |-> st]
    ELSE create(path, content, o, st)

\* operations.skip_on_update()
skip_on_update(path, content, o, st) ==
    IF Get(o, "update") /\ Exists(path, st.fs) THEN [ret |-> FALSE, st |-> st]
    ELSE create(path, content, o, st)

NO_OVERWRITE == "no_overwrite"

SKIP_ON_UPDATE == "skip_on_update"

FileOps == {"create", NO_OVERWRITE, SKIP_ON_UPDATE}

\* file_op(path, content, opts) for the operation a leaf names
file_op(op, path, content, o, st) ==
    CASE op = NO_OVERWRITE -> no_overwrite(path, content, o, st)
      [] op = SKIP_ON_UPDATE -> skip_on_update(path, content, o, st)
      [] OTHER -> create(path, content, o, st)

-----------------------------------------------------------------------------
(* Contents *)

callable(content) == content.ty \in {"function", "CallableTemplate"}

IsTemplate(content) == content.ty \in {"Template", "CallableTemplate"}

\* content(opts) of a callable content: [val, err]
Call(content, o) ==
    CASE content.ty = "CallableTemplate" ->
            [val |-> Str(<<"called">>), err |-> "none"]
      [] content.v = <<"init">> ->
            IF "name" \in DOMAIN o
            THEN [val |-> Str(<<"# ", o.name>>), err |-> "none"]
            ELSE [val |-> None, err |-> "KeyError"]
      [] content.v = <<"nothing">> -> [val |-> None, err |-> "none"]
      [] OTHER -> [val |-> None, err |-> "RuntimeError"]

\* Template.safe_substitute(opts)
safe_substitute(content, o) ==
    Str([i \in 1..Len(content.v) |->
            IF content.v[i] \in DOMAIN Placeholders
               /\ Placeholders[content.v[i]] \in DOMAIN o
            THEN o[Placeholders[content.v[i]]]
            ELSE content.v[i]])

\* structure_leaf, were the file operation of a tuple dropped
structure_leaf_AlwaysCreate(node) == <<node.content, "create">>

\* structure_leaf(contents): <<content, file_op>>
structure_leaf(node) ==
    IF node.istuple THEN <<node.content, node.file_op>>
    ELSE <<node.content, "create">>

\* reify_content, were the Template tested before the callable
reify_content_TemplateFirst(content, o) ==
    IF IsTemplate(content)
    THEN [val |-> safe_substitute(content, o), err |-> "none", calls |-> <<>>]
    ELSE IF callable(content)
    THEN Call(content, o) @@ [calls |-> <<[call |-> "content", content |-> content,
                                           opts |-> o]>>]
    ELSE [val |-> content, err |-> "none", calls |-> <<>>]

\* reify_content(content, opts): [val, err, calls]
reify_content(content, o) ==
    IF callable(content)
    THEN Call(content, o) @@ [calls |-> <<[call |-> "content", content |-> content,
                                           opts |-> o]>>]
    ELSE IF IsTemplate(content)
    THEN [val |-> safe_substitute(content, o), err |-> "none", calls |-> <<>>]
    ELSE [val |-> content, err |-> "none", calls |-> <<>>]

-----------------------------------------------------------------------------
(* create_structure *)

\* update_of, were force left out of it
update_of_NoForce(o) == Get(o, "update")

\* update = opts.get("update") or opts.get("force")
update_of(o) == Get(o, "update") \/ Get(o, "force")

\* pretend_of, were pretend never handed on to create_directory
pretend_of_Never(o) == FALSE

\* pretend = opts.get("pretend")
pretend_of(o) == Get(o, "pretend")

\* opts.get("project_path", ".")
project_path(o) ==
    IF "project_path" \in DOMAIN o THEN <<o.project_path>> ELSE <<".">>

\* SetDir, were a directory with no changed descendant left out
SetDir_Pruned(chg, name, sub) ==
    IF sub = EmptyDict THEN chg
    ELSE (name :> [isdict |-> TRUE, content |-> None, items |-> sub]) @@ chg

\* changed[name], _ = create_structure(node, opts, prefix=path)
SetDir(chg, name, sub) ==
    (name :> [isdict |-> TRUE, content |-> None, items |-> sub]) @@ chg

\* SetLeaf, were the result of the file operation ignored
SetLeaf_Always(chg, name, content, ret) ==
    (name :> [isdict |-> FALSE, content |-> content, items |-> EmptyDict]) @@ chg

\* if file_op(path, content, opts): changed[name] = content
SetLeaf(chg, name, content, ret) ==
    IF ret
    THEN (name :> [isdict |-> FALSE, content |-> content, items |-> EmptyDict]) @@ chg
    ELSE chg

\* Propagates, were the exception swallowed and the loop carried on
Propagates_Swallowed(st) == FALSE

\* an exception in flight ends the loop and every enclosing call
Propagates(st) == st.err # "none"

\* the else branch of the loop, for one leaf: [ret, content, st]
Leaf(node, path, o, st) ==
    LET leaf    == structure_leaf(node)
        r       == reify_content(leaf[1], o)
        st1     == [st EXCEPT !.log = @ \o [i \in 1..Len(r.calls) |->
                                             r.calls[i] @@ [path |-> path]],
                              !.err = IF Propagates(st) THEN @ ELSE r.err]
        res     == file_op(leaf[2], path, r.val, o, st1)
    IN  IF Propagates(st1) THEN [ret |-> FALSE, content |-> r.val, st |-> st1]
        ELSE [ret     |-> res.ret,
              content |-> r.val,
              st      |-> [res.st EXCEPT !.log =
                              Append(@, [call |-> "file_op", path |-> path,
                                         op |-> leaf[2], content |-> r.val,
                                         opts |-> o, ret |-> res.ret])]]

RECURSIVE Loop(_, _, _, _, _, _)
\* for name, node in struct.items(), from the i-th item on, with the recursive
\* calls of create_structure for the nested dicts: [changed, st]
Loop(items, i, o, prefix, chg, st) ==
    IF Propagates(st) \/ i > Len(items) THEN [changed |-> chg, st |-> st]
    ELSE LET name == items[i].name
             node == items[i].node
             path == Append(prefix, name)
         IN  IF node.isdict
             THEN LET st1 == create_directory(path, update_of(o), pretend_of(o), st)
                      sub == Loop(node.items, 1, o, path, EmptyDict, st1)
                  IN  Loop(items, i + 1, o, prefix,
                           SetDir(chg, name, sub.changed), sub.st)
             ELSE LET r == Leaf(node, path, o, st)
                  IN  Loop(items, i + 1, o, prefix,
                           SetLeaf(chg, name, r.content, r.ret), r.st)

\* create_structure(struct, opts) called with no prefix, on the file system f:
\* [changed, st]
create_structure(s, o, f) ==
    LET prefix == project_path(o)
        st0    == create_directory(prefix, update_of(o), pretend_of(o),
                                   [fs |-> f, log |-> <<>>, err |-> "none"])
    IN  Loop(s, 1, o, prefix, EmptyDict, st0)

-----------------------------------------------------------------------------
(* Structures *)

LeafNode(content) ==
    [isdict |-> FALSE, istuple |-> FALSE, content |-> content,
     file_op |-> "create", items |-> <<>>]

TupleNode(content, op) ==
    [isdict |-> FALSE, istuple |-> TRUE, content |-> content,
     file_op |-> op, items |-> <<>>]

DictNode(items) ==
    [isdict |-> TRUE, istuple |-> FALSE, content |-> None,
     file_op |-> "create", items |-> items]

Hello == Str(<<"hello">>)

NameTemplate == Template(<<"${name}", "-", "${missing}">>)

\* the contents a leaf may hold
Contents ==
    {Hello, None, Int42, NameTemplate, CallableTemplate(<<"${name}">>),
     Function("init"), Function("nothing"), Function("fail")}

\* every leaf: a bare content, or a content paired with a file operation
AllLeaves ==
    {LeafNode(c) : c \in Contents}
        \cup {TupleNode(c, op) : c \in Contents, op \in FileOps}

\* the leaves of the structures of more than one node
Leaves ==
    {TupleNode(Hello, "create"), LeafNode(Function("init")),
     TupleNode(NameTemplate, NO_OVERWRITE), TupleNode(Hello, SKIP_ON_UPDATE),
     LeafNode(None), LeafNode(Function("fail")), LeafNode(Int42)}

RECURSIVE Structs(_, _)
\* the structures of at most n nodes whose keys are Names[k], Names[k+1], ...
Structs(n, k) ==
    IF k > Len(Names) \/ n = 0 THEN {<<>>}
    ELSE Structs(n, k + 1)
         \cup {<<[name |-> Names[k], node |-> l]>> \o rest :
                  l \in Leaves, rest \in Structs(n - 1, k + 1)}
         \cup UNION {{<<[name |-> Names[k], node |-> DictNode(sub)]>> \o rest :
                         sub \in Structs(m, 1), rest \in Structs(n - 1 - m, k + 1)} :
                     m \in 0..(n - 1)}

RECURSIVE LeafPaths(_, _)
\* the paths of the leaves of a structure placed at prefix
LeafPaths(items, prefix) ==
    UNION {IF items[i].node.isdict
           THEN LeafPaths(items[i].node.items, Append(prefix, items[i].name))
           ELSE {Append(prefix, items[i].name)} : i \in 1..Len(items)}

RECURSIVE DictPaths(_, _)
\* the paths of the nested dicts of a structure placed at prefix
DictPaths(items, prefix) ==
    UNION {IF items[i].node.isdict
           THEN {Append(prefix, items[i].name)}
                \cup DictPaths(items[i].node.items, Append(prefix, items[i].name))
           ELSE {} : i \in 1..Len(items)}

\* a file system that holds OLD at the paths of S, and the directories above them
Disk(S) ==
    [dirs |-> UNION {Parents(p) : p \in S}, files |-> [p \in S |-> OLD]]

\* the file systems a call may find: files at paths of leaves, or in the way of
\* a nested dict, with nothing below a file
Disks(s, prefix) ==
    {Disk(S) : S \in {T \in SUBSET (LeafPaths(s, prefix) \cup DictPaths(s, prefix)) :
                         \A p \in T : Parents(p) \cap T = {}}}

-----------------------------------------------------------------------------
(* opts *)

Opts == [update : BOOLEAN, force : BOOLEAN, pretend : BOOLEAN, name : {"X"}]

\* opts that lack the key "name" as well
OptsLeaf == Opts \cup [update : BOOLEAN, force : BOOLEAN, pretend : BOOLEAN]

NoOpts == [update |-> FALSE, force |-> FALSE, pretend |-> FALSE, name |-> "X"]

-----------------------------------------------------------------------------
(* Specifications *)

Before(s) ==
    /\ struct = s
    /\ fs \in Disks(s, project_path(NoOpts))
    /\ fs0 = fs
    /\ opts = NoOpts
    /\ changed = EmptyDict
    /\ raised = "none"
    /\ log = <<>>

Init == \E s \in Structs(MaxNodes, 1) : Before(s)

InitLeaf == \E l \in AllLeaves : Before(<<[name |-> "a", node |-> l]>>)

\* create_structure(struct, o) on the file system as it is
Reify(o) ==
    \E r \in {create_structure(struct, o, fs)} :
        /\ opts' = o
        /\ fs0' = fs
        /\ fs' = r.st.fs
        /\ log' = r.st.log
        /\ raised' = r.st.err
        /\ changed' = IF r.st.err = "none" THEN r.changed ELSE EmptyDict
        /\ UNCHANGED struct

Next == \E o \in Opts : Reify(o)

NextLeaf == \E o \in OptsLeaf : Reify(o)

Spec == Init /\ [][Next]_vars

SpecLeaf == InitLeaf /\ [][NextLeaf]_vars

-----------------------------------------------------------------------------
(* What the claims speak of *)

\* create_structure has been called
Ran == log # <<>>

\* the last call returned
Returned == Ran /\ raised = "none"

Root == project_path(opts)

RECURSIVE Preorder(_, _)
\* the nodes of a structure placed at prefix, in the order of traversal: [path, node]
Preorder(items, prefix) ==
    IF items = <<>> THEN <<>>
    ELSE LET path == Append(prefix, Head(items).name)
         IN  <<[path |-> path, node |-> Head(items).node]>>
                 \o (IF Head(items).node.isdict
                     THEN Preorder(Head(items).node.items, path) ELSE <<>>)
                 \o Preorder(Tail(items), prefix)

Nodes == Preorder(struct, Root)

LeafIdx == {i \in DOMAIN Nodes : ~Nodes[i].node.isdict}

\* p lies strictly below directory d
Below(p, d) == Len(p) > Len(d) /\ SubSeq(p, 1, Len(d)) = d

RECURSIVE Has(_, _)
\* the dict chg holds a value at the relative path rel
Has(chg, rel) ==
    /\ rel # <<>>
    /\ Head(rel) \in DOMAIN chg
    /\ \/ Len(rel) = 1
       \/ chg[Head(rel)].isdict /\ Has(chg[Head(rel)].items, Tail(rel))

RECURSIVE ValueAt(_, _)
\* the value the dict chg holds at the relative path rel
ValueAt(chg, rel) ==
    IF Len(rel) = 1 THEN chg[Head(rel)]
    ELSE ValueAt(chg[Head(rel)].items, Tail(rel))

\* path, without the root it starts with
Rel(path) == SubSeq(path, Len(Root) + 1, Len(path))

InChanged(path) == Has(changed, Rel(path))

\* the directory above path is the root, or a nested dict of changed
ParentInChanged(path) ==
    \/ Len(Rel(path)) = 1
    \/ LET up == SubSeq(Rel(path), 1, Len(Rel(path)) - 1)
       IN  Has(changed, up) /\ ValueAt(changed, up).isdict

\* the calls of the file operation of the leaf at path, in the last call
FileOpCalls(path) ==
    {i \in DOMAIN log : log[i].call = "file_op" /\ log[i].path = path}

DirCalls(path) ==
    {i \in DOMAIN log : log[i].call = "create_directory" /\ log[i].path = path}

\* the file operation a leaf is governed by
Governs(node) == IF node.istuple THEN node.file_op ELSE "create"

FileAt(f, path) == IF path \in DOMAIN f.files THEN f.files[path] ELSE None

SameAt(f, g, path) ==
    /\ (path \in f.dirs) = (path \in g.dirs)
    /\ (path \in DOMAIN f.files) = (path \in DOMAIN g.files)
    /\ FileAt(f, path) = FileAt(g, path)

-----------------------------------------------------------------------------
(* Claims *)

\* C1: when create_structure returns, the file operation of every leaf has been
\* called once, with the path prefix/name and the opts of the call; the leaf's
\* name is in the changed dict at its level exactly when that call returned
\* true, and its value there is the content the operation was called with.
C1_ChangedIffOperationTrue ==
    Returned =>
        \A n \in LeafIdx :
            LET path == Nodes[n].path IN
            /\ Cardinality(FileOpCalls(path)) = 1
            /\ \A i \in FileOpCalls(path) :
                  /\ log[i].opts = opts
                  /\ log[i].op = Governs(Nodes[n].node)
                  /\ InChanged(path) <=> log[i].ret
                  /\ InChanged(path) =>
                        /\ ~ValueAt(changed, Rel(path)).isdict
                        /\ ValueAt(changed, Rel(path)).content = log[i].content

\* a call that recorded one leaf and left out another, whose operation
\* returned false
C1_Witness ==
    /\ Returned
    /\ \E n, m \in LeafIdx :
          /\ InChanged(Nodes[n].path)
          /\ ~InChanged(Nodes[m].path)
          /\ \E i \in FileOpCalls(Nodes[m].path) :
                ~log[i].ret /\ log[i].content # None

RECURSIVE Mirrors(_, _)
\* the dict chg mirrors the nesting of the structure items
Mirrors(chg, items) ==
    /\ DOMAIN chg \subseteq {items[i].name : i \in DOMAIN items}
    /\ \A i \in DOMAIN items :
          IF items[i].node.isdict
          THEN /\ items[i].name \in DOMAIN chg
               /\ chg[items[i].name].isdict
               /\ Mirrors(chg[items[i].name].items, items[i].node.items)
          ELSE items[i].name \in DOMAIN chg => ~chg[items[i].name].isdict

\* C6: the changed dict mirrors the nesting of the structure: its keys are keys
\* of the structure at the same level, every nested dict of the structure is
\* there as a nested dict, empty when nothing below it changed, and every
\* other key holds a leaf value.
C6_ChangedMirrorsStructure == Returned => Mirrors(changed, struct)

\* a directory with a leaf in it, none of which changed, is there as an empty dict
C6_Witness ==
    /\ Returned
    /\ \E i \in DOMAIN struct :
          /\ struct[i].node.isdict
          /\ struct[i].node.items # <<>>
          /\ struct[i].name \in DOMAIN changed
          /\ changed[struct[i].name].items = EmptyDict
    /\ \E n \in LeafIdx : InChanged(Nodes[n].path)

\* C9: in a call that returns, create_directory is called exactly once for the
\* root and once for every nested dict, and for nothing else, each time with
\* update = (opts.update or opts.force) and with opts.pretend, and before
\* every call made for a path below that directory.
C9_DirectoryOncePerDictBeforeDescent ==
    Returned =>
        /\ \A d \in {Root} \cup DictPaths(struct, Root) :
              /\ Cardinality(DirCalls(d)) = 1
              /\ \A i \in DirCalls(d) :
                    /\ log[i].update = (opts.update \/ opts.force)
                    /\ log[i].pretend = opts.pretend
                    /\ \A j \in DOMAIN log : Below(log[j].path, d) => i < j
        /\ \A i \in DOMAIN log :
              log[i].call = "create_directory" =>
                  log[i].path \in {Root} \cup DictPaths(struct, Root)

\* a forced call, update unset, on a directory nested in a directory with a
\* leaf in it
C9_Witness ==
    /\ Returned
    /\ opts.force /\ ~opts.update
    /\ \E d \in DictPaths(struct, Root), e \in DictPaths(struct, Root) :
          /\ Below(e, d)
          /\ \E n \in LeafIdx : Below(Nodes[n].path, e)

\* C2: a call with pretend set leaves the file system as it was, the root
\* directory included, and returns the changed dict that the same call without
\* pretend returns from the same file system.
C2_PretendSameChangedNoWrite ==
    (Ran /\ opts.pretend) =>
        /\ fs = fs0
        /\ LET real == create_structure(struct, [opts EXCEPT !.pretend = FALSE], fs0)
           IN  real.st.err = "none" =>
                   /\ raised = "none"
                   /\ changed = real.changed

\* a pretend call on a target that does not exist, for a structure with a
\* directory, that reports a changed leaf
C2_Witness ==
    /\ Returned
    /\ opts.pretend
    /\ fs0 = Disk({})
    /\ fs = fs0
    /\ \E n \in LeafIdx : Len(Rel(Nodes[n].path)) > 1 /\ InChanged(Nodes[n].path)

\* C4: a leaf governed by no_overwrite whose file is there before a call keeps
\* its content through the call, whatever update, force and pretend are; when
\* the call returns, the leaf's name is not in the changed dict and the
\* directory it lies in is.
C4_NoOverwriteKeepsExistingFile ==
    Ran =>
        \A n \in LeafIdx :
            LET path == Nodes[n].path IN
            (Governs(Nodes[n].node) = NO_OVERWRITE /\ path \in DOMAIN fs0.files) =>
                /\ path \in DOMAIN fs.files
                /\ fs.files[path] = fs0.files[path]
                /\ Returned => ~InChanged(path) /\ ParentInChanged(path)

\* the structure {a: (hello, create), b: {a: (template, no_overwrite)}} with
\* b/a = OLD, forced: changed is {a: hello, b: {}} and b/a stays OLD
C4_Witness ==
    /\ Returned
    /\ opts.force /\ ~opts.pretend
    /\ struct = <<[name |-> "a", node |-> TupleNode(Hello, "create")],
                  [name |-> "b", node |->
                      DictNode(<<[name |-> "a", node |->
                                     TupleNode(NameTemplate, NO_OVERWRITE)]>>)]>>
    /\ fs0 = Disk({<<".", "b", "a">>})
    /\ changed = ("a" :> [isdict |-> FALSE, content |-> Hello, items |-> EmptyDict])
                 @@ ("b" :> [isdict |-> TRUE, content |-> None, items |-> EmptyDict])
    /\ fs.files[<<".", "b", "a">>] = OLD
    /\ fs.files[<<".", "a">>] = Hello

\* the i-th call of the log is one that raises: a directory with a file in its
\* way, a callable content that raises, or the write of a value that is no text
Fails(i) ==
    \/ /\ log[i].call = "create_directory"
       /\ ~log[i].pretend
       /\ log[i].path \in DOMAIN fs0.files
    \/ /\ log[i].call = "content"
       /\ Call(log[i].content, log[i].opts).err # "none"
    \/ /\ log[i].call = "file_op"
       /\ log[i].content.ty \notin {"str", "NoneType"}
       /\ ~log[i].opts.pretend
       /\ ~(log[i].op = NO_OVERWRITE /\ Exists(log[i].path, fs0))
       /\ ~(log[i].op = SKIP_ON_UPDATE /\ log[i].opts.update /\ Exists(log[i].path, fs0))

\* the nodes that come after path in the order of traversal
After(path) ==
    {n \in DOMAIN Nodes : \E m \in DOMAIN Nodes : Nodes[m].path = path /\ m < n}

\* C10: when a leaf fails to resolve or to be written, or a directory to be
\* created, the call raises, nothing
\* is called for any node that comes later in the traversal and the file system
\* is as it was at those paths, and every file written earlier in the call
\* holds the content written.
C10_FailureAbortsNoRollback ==
    \A i \in DOMAIN log :
        Fails(i) =>
            /\ raised # "none"
            /\ i = Len(log)
            /\ \A n \in After(log[i].path) :
                  /\ \A j \in DOMAIN log : log[j].path # Nodes[n].path
                  /\ SameAt(fs, fs0, Nodes[n].path)
            /\ \A j \in 1..(i - 1) :
                  (log[j].call = "file_op" /\ log[j].ret /\ ~log[j].opts.pretend) =>
                      FileAt(fs, log[j].path) = log[j].content

\* a call that wrote a file over OLD, then failed on a directory, with a leaf
\* that was there still to come
C10_Witness ==
    /\ raised # "none"
    /\ \E i \in DOMAIN log :
          /\ Fails(i)
          /\ After(log[i].path) # {}
          /\ \E j \in 1..(i - 1) :
                /\ log[j].call = "file_op" /\ log[j].ret
                /\ FileAt(fs0, log[j].path) = OLD
                /\ FileAt(fs, log[j].path) = log[j].content
                /\ log[j].content # OLD

\* the content the file operation of the leaf at path was called with
Resolved(path) == log[CHOOSE i \in FileOpCalls(path) : TRUE].content

\* the leaves whose content resolved to something other than None
ContentLeaves == {n \in LeafIdx : Resolved(Nodes[n].path) # None}

\* a call with update unset that returned, made on an empty target
FirstPass == Returned /\ ~opts.update /\ fs0 = Disk({})

\* a call with update set that returned
UpdatePass == Returned /\ opts.update

\* the changed dict holds every leaf of content (so it is not empty when there
\* is one), and the file of each is written
WroteAndRecordedAll ==
    /\ ContentLeaves # {} => changed # EmptyDict
    /\ \A n \in ContentLeaves :
          /\ InChanged(Nodes[n].path)
          /\ ValueAt(changed, Rel(Nodes[n].path)).content = Resolved(Nodes[n].path)
          /\ FileAt(fs, Nodes[n].path) = Resolved(Nodes[n].path)

\* the changed dict holds every leaf of content, and the file of each is written
\* unless pretend is set
RecordedAll ==
    /\ ContentLeaves # {} => changed # EmptyDict
    /\ \A n \in ContentLeaves :
          /\ InChanged(Nodes[n].path)
          /\ ValueAt(changed, Rel(Nodes[n].path)).content = Resolved(Nodes[n].path)
          /\ ~opts.pretend => FileAt(fs, Nodes[n].path) = Resolved(Nodes[n].path)

\* the leaf at Nodes[n] is left out of the changed dict and its file is as it was
Untouched(n) ==
    /\ ~InChanged(Nodes[n].path)
    /\ SameAt(fs, fs0, Nodes[n].path)

\* every leaf of skip_on_update, and every leaf of no_overwrite whose file was
\* there, is left out and left alone
OmitsSkipOnUpdate ==
    \A n \in LeafIdx :
        (\/ Governs(Nodes[n].node) = SKIP_ON_UPDATE
         \/ /\ Governs(Nodes[n].node) = NO_OVERWRITE
            /\ Nodes[n].path \in DOMAIN fs0.files) => Untouched(n)

\* every leaf of skip_on_update or no_overwrite whose file was there is left out
\* and left alone
OmitsExisting ==
    \A n \in LeafIdx :
        (/\ Governs(Nodes[n].node) \in {SKIP_ON_UPDATE, NO_OVERWRITE}
         /\ Nodes[n].path \in DOMAIN fs0.files) => Untouched(n)

\* C3, as claimed: of two calls in sequence on one structure, the first, with
\* update unset on an empty target, returns a changed dict that is not empty
\* (read as: every leaf of content is written and recorded); the second, with
\* update set,
\* leaves out and leaves alone every leaf of skip_on_update and every leaf of
\* no_overwrite whose file is there.
C3_TwoPasses_AsClaimed ==
    [][(FirstPass /\ UpdatePass') => (WroteAndRecordedAll /\ OmitsSkipOnUpdate')]_vars

\* C3, amended: the first call records every leaf of content (so its changed
\* dict is not empty when there is one) and writes it unless pretend is set;
\* the second leaves out and leaves alone every leaf of skip_on_update or
\* no_overwrite whose file is there when it begins.
C3_TwoPasses ==
    [][(FirstPass /\ UpdatePass') => (RecordedAll /\ OmitsExisting')]_vars

\* an update call that found the files a call before it had written, and left
\* out a leaf of skip_on_update and a leaf of no_overwrite
C3_Witness ==
    /\ UpdatePass
    /\ ~opts.pretend
    /\ \E n, m \in LeafIdx :
          /\ Governs(Nodes[n].node) = SKIP_ON_UPDATE
          /\ FileAt(fs0, Nodes[n].path) = Hello
          /\ Untouched(n)
          /\ Governs(Nodes[m].node) = NO_OVERWRITE
          /\ FileAt(fs0, Nodes[m].path) = Str(<<"X", "-", "${missing}">>)
          /\ Untouched(m)

\* C5, as claimed: a call on a structure with a leaf that is no content of any
\* known shape raises TypeError, and writes no file for that leaf.
C5_TypeErrorOnUnknownLeaf ==
    Ran =>
        \A n \in LeafIdx :
            Nodes[n].node.content.ty = "int" =>
                /\ raised = "TypeError"
                /\ SameAt(fs, fs0, Nodes[n].path)

\* C7: a leaf whose content is None, or a callable that returns None, has its
\* file operation called with None, under every operation and all opts; no
\* file is at its path that was not there before, the file that was there is
\* as it was, and its name is not in the changed dict.
C7_NoneContentNoFileNoEntry ==
    Ran =>
        \A n \in LeafIdx :
            Nodes[n].node.content \in {None, Function("nothing")} =>
                /\ raised = "none"
                /\ Cardinality(FileOpCalls(Nodes[n].path)) = 1
                /\ Resolved(Nodes[n].path) = None
                /\ Untouched(n)

\* a callable that returns None, under no_overwrite, on a target with no file
C7_Witness ==
    /\ Returned
    /\ ~opts.pretend
    /\ \E n \in LeafIdx :
          /\ Nodes[n].node = TupleNode(Function("nothing"), NO_OVERWRITE)
          /\ Nodes[n].path \notin DOMAIN fs0.files
          /\ Nodes[n].path \notin DOMAIN fs.files
          /\ changed = EmptyDict

\* C8: the content of a leaf resolves in this order: a callable is called, once,
\* with the opts of the call, and its result is the content; a Template is
\* substituted safely, a placeholder that opts lacks staying as it is, with no
\* error; anything else is the content as it stands.  A bare leaf goes with
\* create, a tuple with the operation it names.
C8_ContentResolution ==
    Ran =>
        \A n \in LeafIdx :
            LET path    == Nodes[n].path
                node    == Nodes[n].node
                calls   == {i \in DOMAIN log :
                               log[i].call = "content" /\ log[i].path = path}
                isfunc  == node.content.ty \in {"function", "CallableTemplate"}
                result  ==
                    CASE isfunc -> Call(node.content, opts).val
                      [] node.content = NameTemplate ->
                            IF "name" \in DOMAIN opts
                            THEN Str(<<opts.name, "-", "${missing}">>)
                            ELSE Str(<<"${name}", "-", "${missing}">>)
                      [] OTHER -> node.content
            IN  /\ IF isfunc
                   THEN /\ Cardinality(calls) = 1
                        /\ \A i \in calls :
                              log[i].content = node.content /\ log[i].opts = opts
                        /\ raised \in {"none", "TypeError"}
                               <=> Call(node.content, opts).err = "none"
                   ELSE calls = {} /\ raised \in {"none", "TypeError"}
                /\ raised \in {"none", "TypeError"} =>
                      /\ Cardinality(FileOpCalls(path)) = 1
                      /\ \A i \in FileOpCalls(path) :
                            /\ log[i].content = result
                            /\ log[i].op = (IF node.istuple THEN node.file_op
                                            ELSE "create")
                            /\ log[i].opts = opts

\* a Template that is callable, called and not substituted, and a Template
\* resolved with opts that lack the placeholder's key
C8_Witness ==
    /\ Returned
    /\ \/ /\ struct[1].node.content = CallableTemplate(<<"${name}">>)
          /\ Resolved(Nodes[1].path) = Str(<<"called">>)
          /\ "name" \in DOMAIN opts
       \/ /\ struct[1].node.content = NameTemplate
          /\ "name" \notin DOMAIN opts
          /\ Resolved(Nodes[1].path) = Str(<<"${name}", "-", "${missing}">>)

=============================================================================
